---------------------------- MODULE Spec2Model ----------------------------
(***************************************************************************)
(* Flock simulator: the per-boid behaviour rules (flock.py), the boid      *)
(* motion step (boid.py) and the tick loop of Simulation.run               *)
(* (simulation.py).                                                        *)
(*                                                                         *)
(* Numbers.  Positions, velocities and weights are Python floats; here     *)
(* they are integers (a fixed-point grid of unit 1).  Comparisons of       *)
(* lengths (math.dist, math.hypot) are made exactly, on squares.  The two  *)
(* places where the code divides by a length (limit_speed, _set_magnitude) *)
(* and the division by a count (rule_cohesion) round toward zero to the    *)
(* grid; IEEE rounding to nearest is not represented.                      *)
(***************************************************************************)
EXTENDS Integers, Sequences, FiniteSets, TLC

VARIABLES
    config,      \* the configuration dict handed to Simulation.from_config
    width,       \* Simulation.width
    height,      \* Simulation.height
    flocks,      \* Simulation.flocks, each with its list of boids
    pc,          \* where the program is: "init", "tracers", "bodies", "poll",
                 \* "bounds", "terminated" (sys.exit) or "failed" (exception)
    cursor,      \* <<flock index, boid index>> of the next boid of the pass
    tick,        \* number of event polls so far
    error,       \* the exception that ended the run, or NoError
    tickStart,   \* history: flocks as they were when the current tick began
    visited,     \* history: every position each boid was at before a move
    passed,      \* history: boids drawn and updated in the current pass
    last,        \* history: what the last update_boid call read and wrote
    lastPoll     \* history: the events the last poll returned

vars == <<config, width, height, flocks, pc, cursor, tick, error,
          tickStart, visited, passed, last, lastPoll>>

-----------------------------------------------------------------------------
(* Bounds of the model *)

MaxTicks == 2
MaxEvents == 2

-----------------------------------------------------------------------------
(* Arithmetic *)

Abs(n) == IF n < 0 THEN -n ELSE n

Sgn(n) == IF n < 0 THEN -1 ELSE IF n > 0 THEN 1 ELSE 0

\* Integer division rounding toward zero (d /= 0).
TruncDiv(n, d) == Sgn(n) * Sgn(d) * (Abs(n) \div Abs(d))

\* x^2 + y^2 of a vector.
SqNorm(v) == v[1] * v[1] + v[2] * v[2]

\* Squared Euclidean distance of two points.
SqDist(p, q) == (p[1] - q[1]) * (p[1] - q[1]) + (p[2] - q[2]) * (p[2] - q[2])

\* The largest k >= start with k^2 * den <= num, i.e. trunc(sqrt(num / den)).
RECURSIVE TruncRoot(_, _, _)
TruncRoot(k, num, den) ==
    IF (k + 1) * (k + 1) * den > num THEN k ELSE TruncRoot(k + 1, num, den)

\* trunc(a * sqrt(numSq) / sqrt(denSq)) with the sign of a: one component
\* of a vector rescaled by the ratio of two lengths given by their squares.
ScaleComp(a, numSq, denSq) == Sgn(a) * TruncRoot(0, a * a * numSq, denSq)

\* a < b for a length a >= 0 given by its square and a number b.
LenBelow(aSq, b) == b > 0 /\ aSq < b * b

\* a > b for a length a >= 0 given by its square and a number b.
LenAbove(aSq, b) == b < 0 \/ aSq > b * b

-----------------------------------------------------------------------------
(* Boid (boid.py) *)

NoId == "None"

Pos(b) == <<b.x, b.y>>

Vel(b) == <<b.vx, b.vy>>

Boid(x, y, vx, vy) == [x |-> x, y |-> y, vx |-> vx, vy |-> vy, pos_history |-> <<>>]

\* Boid.in_range: math.dist(self, other) <= self.flock.sight_range
in_range(fl, b, other) == ~LenAbove(SqDist(Pos(b), Pos(other)), fl.sight_range)

PopFirst(s) == SubSeq(s, 2, Len(s))

\* update_position with pop() in place of pop(0): the newest entry is evicted.
update_position_lifo(fl, b) ==
    LET appended == Append(b.pos_history, Pos(b))
        kept == IF Len(appended) > fl.tracer_len
                THEN SubSeq(appended, 1, Len(appended) - 1) ELSE appended
    IN  [b EXCEPT !.pos_history = kept, !.x = b.x + b.vx, !.y = b.y + b.vy]

\* Boid.update_position
update_position(fl, b) ==
    LET appended == Append(b.pos_history, Pos(b))
        kept == IF Len(appended) > fl.tracer_len THEN PopFirst(appended) ELSE appended
    IN  [b EXCEPT !.pos_history = kept, !.x = b.x + b.vx, !.y = b.y + b.vy]

min_velocity == -1
max_velocity == 1

\* random.uniform(lo, hi) on the grid.
Uniform(lo, hi) == lo .. hi

\* create_random drawing positions from [-max_position, max_position].
create_random_centered(min_position, max_position, lo, hi) ==
    { Boid(x, y, vx, vy) :
        x \in Uniform(-max_position[1], max_position[1]),
        y \in Uniform(-max_position[2], max_position[2]),
        vx \in Uniform(lo, hi), vy \in Uniform(lo, hi) }

\* Boid.create_random: the boids it can return.
create_random(min_position, max_position, lo, hi) ==
    { Boid(x, y, vx, vy) :
        x \in Uniform(min_position[1], max_position[1]),
        y \in Uniform(min_position[2], max_position[2]),
        vx \in Uniform(lo, hi), vy \in Uniform(lo, hi) }

-----------------------------------------------------------------------------
(* Exceptions *)

NoError == [type |-> "none", id |-> NoId]

KeyError(id) == [type |-> "KeyError", id |-> id]

ValueError == [type |-> "ValueError", id |-> NoId]

ZeroDivisionError == [type |-> "ZeroDivisionError", id |-> NoId]

-----------------------------------------------------------------------------
(* Flock (flock.py) *)

\* The sum of f[j] over the indices j in S.
RECURSIVE SumOver(_, _)
SumOver(f, S) ==
    IF S = {} THEN 0
    ELSE LET j == CHOOSE k \in S : TRUE IN f[j] + SumOver(f, S \ {j})

\* The other boids of the flock that boid bi can see.
Neighbors(fl, bi) ==
    { j \in 1 .. Len(fl.boids) : j # bi /\ in_range(fl, fl.boids[bi], fl.boids[j]) }

\* Flock.rule_alignment: the boid with its velocity aligned.
rule_alignment(fl, bi) ==
    LET b == fl.boids[bi]
        N == Neighbors(fl, bi)
        avg_vx == SumOver([j \in N |-> fl.boids[j].vx], N)
        avg_vy == SumOver([j \in N |-> fl.boids[j].vy], N)
    IN  [b EXCEPT !.vx = b.vx + (avg_vx - b.vx) * fl.alignment,
                  !.vy = b.vy + (avg_vy - b.vy) * fl.alignment]

\* Flock.rule_cohesion, on the boid b that the earlier rule left.
rule_cohesion(fl, bi, b) ==
    LET N == Neighbors(fl, bi)
        num_neighbors == Cardinality(N)
        center_x == TruncDiv(SumOver([j \in N |-> fl.boids[j].x], N), num_neighbors)
        center_y == TruncDiv(SumOver([j \in N |-> fl.boids[j].y], N), num_neighbors)
    IN  IF num_neighbors = 0 THEN b
        ELSE [b EXCEPT !.vx = b.vx + (center_x - b.x) * fl.cohesion,
                       !.vy = b.vy + (center_y - b.y) * fl.cohesion]

\* The other boids of the flock closer to boid bi than min_separation.
TooClose(fl, bi) ==
    { j \in 1 .. Len(fl.boids) :
        j # bi /\ LenBelow(SqDist(Pos(fl.boids[bi]), Pos(fl.boids[j])), fl.min_separation) }

\* rule_separation steering toward the boids that are too close.
rule_separation_toward(fl, bi, b) ==
    LET N == TooClose(fl, bi)
        vx == SumOver([j \in N |-> fl.boids[j].x - b.x], N)
        vy == SumOver([j \in N |-> fl.boids[j].y - b.y], N)
    IN  [b EXCEPT !.vx = b.vx + vx * fl.separation,
                  !.vy = b.vy + vy * fl.separation]

\* Flock.rule_separation
rule_separation(fl, bi, b) ==
    LET N == TooClose(fl, bi)
        vx == SumOver([j \in N |-> b.x - fl.boids[j].x], N)
        vy == SumOver([j \in N |-> b.y - fl.boids[j].y], N)
    IN  [b EXCEPT !.vx = b.vx + vx * fl.separation,
                  !.vy = b.vy + vy * fl.separation]

\* get_flock falling back on the first flock when no id matches.
get_flock_default(F, id) ==
    LET found == { i \in 1 .. Len(F) : F[i].id # NoId /\ F[i].id = id }
    IN  IF found = {} THEN 1 ELSE CHOOSE i \in found : \A k \in found : i <= k

\* Simulation.get_flock: the index of the first flock with the id, 0 when
\* there is none (the code raises KeyError).
get_flock(F, id) ==
    LET found == { i \in 1 .. Len(F) : F[i].id # NoId /\ F[i].id = id }
    IN  IF found = {} THEN 0 ELSE CHOOSE i \in found : \A k \in found : i <= k

\* min(boids, key = distance to b): the first boid at the least distance.
Closest(boids, b) ==
    CHOOSE j \in 1 .. Len(boids) :
        \A k \in 1 .. Len(boids) :
            \/ SqDist(Pos(b), Pos(boids[j])) < SqDist(Pos(b), Pos(boids[k]))
            \/ SqDist(Pos(b), Pos(boids[j])) = SqDist(Pos(b), Pos(boids[k])) /\ j <= k

\* Flock.rule_affinity from the k-th affinity pair on. The result holds the
\* boid, the exception raised (if any) and, per pair evaluated, the target
\* flock and the positions read from it.
RECURSIVE AffinityFrom(_, _, _, _, _)
AffinityFrom(F, fl, b, k, reads) ==
    IF k > Len(fl.affinity) THEN [b |-> b, err |-> NoError, reads |-> reads]
    ELSE LET flock_id == fl.affinity[k][1]
             affinity == fl.affinity[k][2]
             t == get_flock(F, flock_id)
         IN  IF t = 0 THEN [b |-> b, err |-> KeyError(flock_id), reads |-> reads]
             ELSE LET seen == [j \in 1 .. Len(F[t].boids) |-> Pos(F[t].boids[j])]
                      read == Append(reads, [target |-> t, seen |-> seen])
                  IN  IF F[t].boids = <<>>
                      THEN [b |-> b, err |-> ValueError, reads |-> read]
                      ELSE LET closest == F[t].boids[Closest(F[t].boids, b)]
                               moved ==
                                   IF in_range(fl, b, closest)
                                   THEN [b EXCEPT !.vx = b.vx + (closest.x - b.x) * affinity,
                                                  !.vy = b.vy + (closest.y - b.y) * affinity]
                                   ELSE b
                           IN  AffinityFrom(F, fl, moved, k + 1, read)

rule_affinity(F, fl, b) == AffinityFrom(F, fl, b, 1, <<>>)

\* limit_speed with the comparison reversed: only slow boids are rescaled.
limit_speed_reversed(fl, b) ==
    LET sq == SqNorm(Vel(b))
        cap == fl.max_speed * fl.max_speed
    IN  IF sq > 0 /\ LenBelow(sq, fl.max_speed)
        THEN [b EXCEPT !.vx = Sgn(fl.max_speed) * ScaleComp(b.vx, cap, sq),
                       !.vy = Sgn(fl.max_speed) * ScaleComp(b.vy, cap, sq)]
        ELSE b

\* Flock.limit_speed (callers have a speed above zero when max_speed < 0).
limit_speed(fl, b) ==
    LET sq == SqNorm(Vel(b))
        cap == fl.max_speed * fl.max_speed
    IN  IF LenAbove(sq, fl.max_speed)
        THEN [b EXCEPT !.vx = Sgn(fl.max_speed) * ScaleComp(b.vx, cap, sq),
                       !.vy = Sgn(fl.max_speed) * ScaleComp(b.vy, cap, sq)]
        ELSE b

\* _set_magnitude, the magnitude given by its square.
set_magnitude(v, magnitudeSq) ==
    LET current == SqNorm(v)
    IN  IF current = 0 THEN <<0, 0>>
        ELSE <<ScaleComp(v[1], magnitudeSq, current), ScaleComp(v[2], magnitudeSq, current)>>

\* The impulse keep_in_bounds adds on one axis: coord is the relative
\* coordinate, extent the window's size on that axis. The absolute
\* coordinate is coord + extent / 2 (Simulation.absolute_coords); the
\* comparisons are made on its double.
Impulse(coord, extent, boundary_force) ==
    IF 2 * coord + extent < 0 THEN boundary_force
    ELSE IF 2 * coord + extent > 2 * extent THEN -boundary_force
    ELSE 0

\* keep_in_bounds without the rescale after the impulse.
keep_in_bounds_impulse_only(fl, b, w, h) ==
    [b EXCEPT !.vx = b.vx + Impulse(b.x, w, fl.boundary_force),
              !.vy = b.vy + Impulse(b.y, h, fl.boundary_force)]

\* Flock.keep_in_bounds
keep_in_bounds(fl, b, w, h) ==
    LET magnitude == SqNorm(Vel(b))
        pushed == <<b.vx + Impulse(b.x, w, fl.boundary_force),
                    b.vy + Impulse(b.y, h, fl.boundary_force)>>
        v == IF SqNorm(pushed) > magnitude THEN set_magnitude(pushed, magnitude) ELSE pushed
    IN  [b EXCEPT !.vx = v[1], !.vy = v[2]]

\* Flock.update_boid on boid bi of flock fi. The result holds the flocks
\* after the call and the exception that ended it (if any), and for the
\* history the boid after the alignment rule, before and after the
\* boundary step, and what the affinity rule read.
update_boid(F, fi, bi, w, h) ==
    LET fl == F[fi]
        b1 == rule_alignment(fl, bi)
        b2 == rule_cohesion(fl, bi, b1)
        b3 == rule_separation(fl, bi, b2)
        a == rule_affinity(F, fl, b3)
        b4 == a.b
        zero == fl.max_speed < 0 /\ SqNorm(Vel(b4)) = 0
        b5 == IF zero THEN b4 ELSE limit_speed(fl, b4)
        b6 == keep_in_bounds(fl, b5, w, h)
        b7 == update_position(fl, b6)
        err == IF a.err # NoError THEN a.err
               ELSE IF zero THEN ZeroDivisionError ELSE NoError
        out == IF err # NoError THEN b4 ELSE b7
    IN  [flocks |-> [F EXCEPT ![fi].boids[bi] = out],
         err |-> err,
         aligned |-> b1, ruled |-> b4, clamped |-> b5, bounded |-> b6, reads |-> a.reads]

\* Flock.get_center (the code divides by len(self.boids)).
get_center(fl) ==
    LET n == Len(fl.boids)
        all == 1 .. n
    IN  <<TruncDiv(SumOver([j \in all |-> fl.boids[j].x], all), n),
          TruncDiv(SumOver([j \in all |-> fl.boids[j].y], all), n)>>

-----------------------------------------------------------------------------
(* Configurations: the inputs of the model *)

FlockConf(id, count, affinity, alignment, separation, cohesion, min_separation, max_speed, boundary_force, sight_range, tracer_length) ==
    [id |-> id, count |-> count, affinity |-> affinity, alignment |-> alignment,
     separation |-> separation, cohesion |-> cohesion,
     min_separation |-> min_separation, max_speed |-> max_speed,
     boundary_force |-> boundary_force, sight_range |-> sight_range,
     tracer_length |-> tracer_length, tracer_enabled |-> tracer_length > 0]

\* One flock of two boids that only separate.
Demo ==
    [window |-> <<6, 1>>,
     flocks |-> << FlockConf(NoId, 2, <<>>, 0, 1, 0, 10, 100, 1, 5, 1) >>]

\* A predator flock chasing a prey flock that flees it.
Hunt ==
    [window |-> <<2, 1>>,
     flocks |-> << FlockConf("pred", 1, << <<"prey", 1>> >>, 1, 1, 1, 2, 2, 1, 3, 2),
                   FlockConf("prey", 1, << <<"pred", -1>> >>, 0, 1, 1, 2, 1, 2, 2, 0) >>]

\* One flock of three boids that align and cohere.
Trio ==
    [window |-> <<1, 1>>,
     flocks |-> << FlockConf(NoId, 3, <<>>, 1, 0, 1, 2, 3, 1, 4, 1) >>]

\* A flock whose affinity names a flock that does not exist, after a flock
\* without an id.
Ghost ==
    [window |-> <<2, 1>>,
     flocks |-> << FlockConf(NoId, 1, <<>>, 0, 0, 0, 1, 2, 1, 2, 1),
                   FlockConf("a", 1, << <<"ghost", 1>> >>, 1, 0, 0, 1, 2, 1, 2, 1) >>]

\* A flock whose affinity names a flock of no boids.
Hollow ==
    [window |-> <<2, 1>>,
     flocks |-> << FlockConf("a", 1, << <<"b", 1>> >>, 0, 0, 0, 1, 2, 1, 2, 1),
                   FlockConf("b", 0, <<>>, 0, 0, 0, 1, 2, 1, 2, 1) >>]

\* A flock whose affinities name a flock of no boids and then a flock that
\* does not exist.
HollowGhost ==
    [window |-> <<2, 1>>,
     flocks |-> << FlockConf("a", 1, << <<"b", 1>>, <<"ghost", 1>> >>, 0, 0, 0, 1, 2, 1, 2, 1),
                   FlockConf("b", 0, <<>>, 0, 0, 0, 1, 2, 1, 2, 1) >>]

\* A flock of no boids before a flock of a single boid.
Lone ==
    [window |-> <<2, 2>>,
     flocks |-> << FlockConf(NoId, 0, <<>>, 1, 1, 1, 1, 2, 1, 2, 1),
                   FlockConf(NoId, 1, <<>>, 1, 1, 1, 1, 0, 1, 2, 2) >>]

Configs == {Demo, Hunt, Trio, Ghost, Hollow, HollowGhost, Lone}

-----------------------------------------------------------------------------
(* Simulation (simulation.py) *)

NoCursor == <<0, 0>>

\* The boids of the flocks, each as <<flock index, boid index>>.
Cursors(F) == UNION { { <<i, j>> : j \in 1 .. Len(F[i].boids) } : i \in 1 .. Len(F) }

Before(c, d) == c[1] < d[1] \/ (c[1] = d[1] /\ c[2] < d[2])

\* The pass with the flocks taken in reverse order.
NextCursor_reversed(F, c) ==
    LET after(d, e) == d[1] > e[1] \/ (d[1] = e[1] /\ d[2] < e[2])
        later == { d \in Cursors(F) : c = NoCursor \/ after(c, d) }
    IN  IF later = {} THEN NoCursor
        ELSE CHOOSE d \in later : \A e \in later : d = e \/ after(d, e)

\* The boid that follows c in "for flock in self.flocks: for boid in
\* flock.boids" (the first one for c = NoCursor), NoCursor after the last.
NextCursor(F, c) ==
    LET later == { d \in Cursors(F) : Before(c, d) }
    IN  IF later = {} THEN NoCursor
        ELSE CHOOSE d \in later : \A e \in later : d = e \/ Before(d, e)

Quit == [type |-> "QUIT", w |-> 0, h |-> 0]

VideoResize(w, h) == [type |-> "VIDEORESIZE", w |-> w, h |-> h]

Other == [type |-> "OTHER", w |-> 0, h |-> 0]

Events == {Quit, Other, VideoResize(3, 4)}

\* What pygame.event.get() can return.
EventSeqs == UNION { [1 .. n -> Events] : n \in 0 .. MaxEvents }

\* The event loop going on to the later events after a QUIT.
RECURSIVE HandleEvents_all(_, _, _)
HandleEvents_all(evs, k, dims) ==
    IF k > Len(evs) THEN [dims |-> dims, quit |-> FALSE]
    ELSE LET rest == HandleEvents_all(evs, k + 1,
                         IF evs[k].type = "VIDEORESIZE" THEN <<evs[k].w, evs[k].h>> ELSE dims)
         IN  [dims |-> rest.dims, quit |-> rest.quit \/ evs[k].type = "QUIT"]

\* The event loop of Simulation.run from the k-th event on: the window
\* size it leaves and whether it exited.
RECURSIVE HandleEvents(_, _, _)
HandleEvents(evs, k, dims) ==
    IF k > Len(evs) THEN [dims |-> dims, quit |-> FALSE]
    ELSE IF evs[k].type = "QUIT" THEN [dims |-> dims, quit |-> TRUE]
    ELSE IF evs[k].type = "VIDEORESIZE"
         THEN HandleEvents(evs, k + 1, <<evs[k].w, evs[k].h>>)
    ELSE HandleEvents(evs, k + 1, dims)

NoLast == [kind |-> "none"]

NoPoll == [polled |-> FALSE]

\* The attributes Flock.__init__ sets from one entry of the configuration
\* (Flock.from_config), with the given boids.
Flock(conf, boids) ==
    [id |-> conf.id, num_boids |-> conf.count, affinity |-> conf.affinity,
     alignment |-> conf.alignment, separation |-> conf.separation,
     cohesion |-> conf.cohesion, min_separation |-> conf.min_separation,
     max_speed |-> conf.max_speed, boundary_force |-> conf.boundary_force,
     sight_range |-> conf.sight_range, tracer_len |-> conf.tracer_length,
     tracer_enabled |-> conf.tracer_enabled, boids |-> boids]

\* Flock.__init__: the flocks it can build in a window of size w, h.
FlockInit(conf, w, h) ==
    LET dimensions == <<w \div 2, h \div 2>>
        drawn == create_random(<<0, 0>>, dimensions, min_velocity, max_velocity)
    IN  { Flock(conf, boids) : boids \in [1 .. conf.count -> drawn] }

Init ==
    /\ config \in Configs
    /\ width = config.window[1]
    /\ height = config.window[2]
    /\ flocks = <<>>
    /\ pc = "init"
    /\ cursor = NoCursor
    /\ tick = 0
    /\ error = NoError
    /\ tickStart = <<>>
    /\ visited = <<>>
    /\ passed = <<>>
    /\ last = NoLast
    /\ lastPoll = NoPoll

\* Simulation.__init__: the next flock of the configuration is built; after
\* the last one the program enters run().
BuildFlock ==
    /\ pc = "init"
    /\ \E fl \in FlockInit(config.flocks[Len(flocks) + 1], width, height) :
          /\ flocks' = Append(flocks, fl)
          /\ visited' = Append(visited, [j \in 1 .. Len(fl.boids) |-> <<>>])
    /\ pc' = IF Len(flocks) + 1 = Len(config.flocks) THEN "tracers" ELSE "init"
    /\ UNCHANGED <<config, width, height, cursor, tick, error, tickStart,
                   passed, last, lastPoll>>

\* Simulation.run, top of the loop: the frame is cleared and the tracers
\* of every flock are drawn; the pass over the boids begins.
DrawTracers ==
    /\ pc = "tracers"
    /\ cursor' = NextCursor(flocks, NoCursor)
    /\ pc' = IF cursor' = NoCursor THEN "poll" ELSE "bodies"
    /\ tickStart' = flocks
    /\ passed' = <<>>
    /\ last' = NoLast
    /\ lastPoll' = NoPoll
    /\ UNCHANGED <<config, width, height, flocks, tick, error, visited>>

\* Simulation.run, body of the pass: the boid at the cursor is drawn and
\* Flock.update_boid is called on it.
UpdateBoid ==
    /\ pc = "bodies"
    /\ LET fi == cursor[1]
           bi == cursor[2]
           r == update_boid(flocks, fi, bi, width, height)
       IN  /\ flocks' = r.flocks
           /\ error' = r.err
           /\ last' = [kind |-> "update", fi |-> fi, bi |-> bi, pre |-> flocks,
                       aligned |-> r.aligned, ruled |-> r.ruled, clamped |-> r.clamped,
                       bounded |-> r.bounded, reads |-> r.reads, err |-> r.err]
           /\ IF r.err # NoError
              THEN /\ pc' = "failed"
                   /\ UNCHANGED <<cursor, passed, visited>>
              ELSE /\ cursor' = NextCursor(flocks, cursor)
                   /\ pc' = IF cursor' = NoCursor THEN "poll" ELSE "bodies"
                   /\ passed' = Append(passed, cursor)
                   /\ visited' = [visited EXCEPT ![fi][bi] =
                                     Append(@, Pos(r.bounded))]
    /\ UNCHANGED <<config, width, height, tick, tickStart, lastPoll>>

\* Simulation.run, end of the loop: the display is updated, the loop sleeps
\* and handles the events pygame returns.
PollEvents ==
    /\ pc = "poll"
    /\ tick < MaxTicks
    /\ \E evs \in EventSeqs :
          LET r == HandleEvents(evs, 1, <<width, height>>)
          IN  /\ width' = r.dims[1]
              /\ height' = r.dims[2]
              /\ pc' = IF r.quit THEN "terminated" ELSE "tracers"
              /\ lastPoll' = [polled |-> TRUE, evs |-> evs, passed |-> passed,
                              from |-> <<width, height>>]
    /\ tick' = tick + 1
    /\ UNCHANGED <<config, flocks, cursor, error, tickStart, visited, passed, last>>

Next == BuildFlock \/ DrawTracers \/ UpdateBoid \/ PollEvents

Spec == Init /\ [][Next]_vars

-----------------------------------------------------------------------------
(* Flock.keep_in_bounds on its own, from any position and velocity *)

MaxCoord == 3
MaxVel == 2

BoundaryForces == {0, 1, 3}

BoundsWindows == {<<2, 2>>, <<4, 3>>}

BoundsConf(window, boundary_force) ==
    [window |-> window,
     flocks |-> << FlockConf(NoId, 1, <<>>, 0, 0, 0, 1, 2 * MaxVel, boundary_force, 1, 1) >>]

InitBounds ==
    /\ \E window \in BoundsWindows, boundary_force \in BoundaryForces :
          config = BoundsConf(window, boundary_force)
    /\ width = config.window[1]
    /\ height = config.window[2]
    /\ \E x, y \in -MaxCoord .. MaxCoord, vx, vy \in -MaxVel .. MaxVel :
          flocks = << Flock(config.flocks[1], << Boid(x, y, vx, vy) >>) >>
    /\ pc = "bounds"
    /\ cursor = <<1, 1>>
    /\ tick = 0
    /\ error = NoError
    /\ tickStart = flocks
    /\ visited = << << <<>> >> >>
    /\ passed = <<>>
    /\ last = NoLast
    /\ lastPoll = NoPoll

\* One call of Flock.keep_in_bounds on the boid.
KeepInBounds ==
    /\ pc = "bounds"
    /\ flocks' = [flocks EXCEPT ![1].boids[1] =
                     keep_in_bounds(flocks[1], flocks[1].boids[1], width, height)]
    /\ last' = [kind |-> "bounds", fi |-> 1, bi |-> 1, pre |-> flocks]
    /\ pc' = "bounded"
    /\ UNCHANGED <<config, width, height, cursor, tick, error, tickStart,
                   visited, passed, lastPoll>>

NextBounds == KeepInBounds

SpecBounds == InitBounds /\ [][NextBounds]_vars

-----------------------------------------------------------------------------
(* Properties *)

TheBoid(F, c) == F[c[1]].boids[c[2]]

Positions(fl) == [j \in 1 .. Len(fl.boids) |-> Pos(fl.boids[j])]

Range(seq) == { seq[k] : k \in 1 .. Len(seq) }

Min(a, b) == IF a < b THEN a ELSE b

\* The last n entries of a sequence.
Tail_n(seq, n) == SubSeq(seq, Len(seq) - n + 1, Len(seq))

\* C1: a boid that update_boid has been called on (and returned) is no
\* faster than its flock's max_speed, when max_speed >= 0.
C1_SpeedBound ==
    \A c \in Cursors(flocks) :
        (visited[c[1]][c[2]] # <<>> /\ flocks[c[1]].max_speed >= 0)
            => SqNorm(Vel(TheBoid(flocks, c)))
                   <= flocks[c[1]].max_speed * flocks[c[1]].max_speed

\* C1 witness: a call after a resize in which the rules left the boid
\* faster than max_speed and the boundary step then changed the velocity.
C1_Witness ==
    /\ last.kind = "update"
    /\ last.err = NoError
    /\ tick >= 1
    /\ SqNorm(Vel(last.ruled)) > flocks[last.fi].max_speed * flocks[last.fi].max_speed
    /\ Vel(last.bounded) # Vel(last.clamped)

\* C2: a trail is never longer than tracer_len (>= 0) and holds the most
\* recent positions the boid moved from, oldest first.
C2_TrailBound ==
    \A c \in Cursors(flocks) :
        LET fl == flocks[c[1]]
            trail == TheBoid(flocks, c).pos_history
            been == visited[c[1]][c[2]]
        IN  fl.tracer_len >= 0 =>
                /\ Len(trail) <= fl.tracer_len
                /\ trail = Tail_n(been, Min(fl.tracer_len, Len(been)))

\* C2 witness: a boid of a flock with a trail capacity of at least one
\* that has moved more often than the capacity.
C2_Witness ==
    \E c \in Cursors(flocks) :
        /\ flocks[c[1]].tracer_len >= 1
        /\ Len(visited[c[1]][c[2]]) > flocks[c[1]].tracer_len
        /\ Len(TheBoid(flocks, c).pos_history) = flocks[c[1]].tracer_len

\* C3: the alignment rule adds (M - v) * alignment, M the mean velocity of
\* the visible other boids of the flock (zero when there are none). With n
\* neighbours of velocity sum S this is n * delta = (S - n * v) * alignment.
C3_AlignmentMean ==
    last.kind = "update" =>
        LET fl == last.pre[last.fi]
            b == fl.boids[last.bi]
            N == { j \in 1 .. Len(fl.boids) :
                     j # last.bi /\ SqDist(Pos(b), Pos(fl.boids[j]))
                                       <= fl.sight_range * fl.sight_range }
            n == Cardinality(N)
            Sx == SumOver([j \in N |-> fl.boids[j].vx], N)
            Sy == SumOver([j \in N |-> fl.boids[j].vy], N)
            dx == last.aligned.vx - b.vx
            dy == last.aligned.vy - b.vy
        IN  IF n = 0
            THEN dx = (0 - b.vx) * fl.alignment /\ dy = (0 - b.vy) * fl.alignment
            ELSE /\ n * dx = (Sx - n * b.vx) * fl.alignment
                 /\ n * dy = (Sy - n * b.vy) * fl.alignment

\* The first pass of the two-boid example is over: the boids started at
\* (0,0) and (3,0) at rest.
DemoPassed ==
    /\ config = Demo
    /\ pc = "poll"
    /\ tick = 0
    /\ Positions(tickStart[1]) = << <<0, 0>>, <<3, 0>> >>
    /\ Vel(tickStart[1].boids[1]) = <<0, 0>>
    /\ Vel(tickStart[1].boids[2]) = <<0, 0>>

\* C4, as stated: after one tick the boids have velocities (-3,0) and
\* (3,0) and are at (-3,0) and (6,0).
C4_Example ==
    DemoPassed =>
        /\ Vel(flocks[1].boids[1]) = <<-3, 0>>
        /\ Pos(flocks[1].boids[1]) = <<-3, 0>>
        /\ Vel(flocks[1].boids[2]) = <<3, 0>>
        /\ Pos(flocks[1].boids[2]) = <<6, 0>>

\* C4, amended: the second boid is updated after the first has moved to
\* (-3,0), so it gets velocity (6,0) and ends at (9,0).
C4_ExampleInOrder ==
    DemoPassed =>
        /\ Vel(flocks[1].boids[1]) = <<-3, 0>>
        /\ Pos(flocks[1].boids[1]) = <<-3, 0>>
        /\ Vel(flocks[1].boids[2]) = <<6, 0>>
        /\ Pos(flocks[1].boids[2]) = <<9, 0>>

\* C4 witness: the example's first pass is over.
C4_Witness == DemoPassed

\* Whether the absolute coordinate (coord + extent / 2) lies below 0 or
\* above the extent.
OutOfRange(coord, extent) == 2 * coord + extent < 0 \/ coord + coord > extent

\* The velocity of the boid of SpecBounds before the boundary step, after
\* it, and with the bare impulse added.
BoundsBefore == Vel(last.pre[1].boids[1])

BoundsAfter == Vel(flocks[1].boids[1])

BoundsAt == <<Pos(last.pre[1].boids[1])[1], Pos(last.pre[1].boids[1])[2]>>

BoundsRaw ==
    LET force == flocks[1].boundary_force
        at == BoundsAt
        on(coord, extent) == IF 2 * coord + extent < 0 THEN force
                             ELSE IF coord + coord > extent THEN -force ELSE 0
    IN  <<BoundsBefore[1] + on(at[1], width), BoundsBefore[2] + on(at[2], height)>>

\* v is u rescaled to the length whose square is lenSq, as far as the grid
\* allows: it points where u points and is shorter than that length by
\* less than one unit per component.
RescaledTo(v, u, lenSq) ==
    /\ Sgn(v[1]) \in {0, Sgn(u[1])}
    /\ Sgn(v[2]) \in {0, Sgn(u[2])}
    /\ Abs(u[1] * v[2] - u[2] * v[1]) < Abs(u[1]) + Abs(u[2])
    /\ SqNorm(v) <= lenSq
    /\ SqNorm(<<Abs(v[1]) + 1, Abs(v[2]) + 1>>) > lenSq

\* The boundary step never speeds the boid up, and a result that would be
\* faster is the raw result rescaled to the speed before the step.
BoundsNoSpeedup ==
    /\ SqNorm(BoundsAfter) <= SqNorm(BoundsBefore)
    /\ IF SqNorm(BoundsRaw) > SqNorm(BoundsBefore)
       THEN RescaledTo(BoundsAfter, BoundsRaw, SqNorm(BoundsBefore))
       ELSE BoundsAfter = BoundsRaw

\* C5, as stated: no speed-up, and a velocity component differs after the
\* step only on an axis whose absolute coordinate is out of range.
C5_Bounds ==
    pc = "bounded" =>
        /\ BoundsNoSpeedup
        /\ BoundsAfter[1] # BoundsBefore[1] => OutOfRange(BoundsAt[1], width)
        /\ BoundsAfter[2] # BoundsBefore[2] => OutOfRange(BoundsAt[2], height)

\* The component on an axis in range is left alone by the impulse: it
\* changes only when the result is rescaled, and then it shrinks.
InRangeAxisShrinks(k, extent) ==
    (~OutOfRange(BoundsAt[k], extent) /\ BoundsAfter[k] # BoundsBefore[k]) =>
        /\ SqNorm(BoundsRaw) > SqNorm(BoundsBefore)
        /\ Abs(BoundsAfter[k]) < Abs(BoundsBefore[k])
        /\ Sgn(BoundsAfter[k]) \in {0, Sgn(BoundsBefore[k])}

\* C5, amended: no speed-up; the impulse is added only on an axis out of
\* range, and the rescale may shrink the component of the other axis too.
C5_BoundsImpulse ==
    pc = "bounded" =>
        /\ BoundsNoSpeedup
        /\ InRangeAxisShrinks(1, width)
        /\ InRangeAxisShrinks(2, height)
        /\ (~OutOfRange(BoundsAt[1], width) /\ ~OutOfRange(BoundsAt[2], height))
               => BoundsAfter = BoundsBefore

\* C5 witness: the impulse on one axis made the boid faster, and the
\* rescale changed the component of the axis that is in range.
C5_Witness ==
    /\ pc = "bounded"
    /\ SqNorm(BoundsRaw) > SqNorm(BoundsBefore)
    /\ OutOfRange(BoundsAt[1], width)
    /\ ~OutOfRange(BoundsAt[2], height)
    /\ BoundsAfter[2] # BoundsBefore[2]

\* The affinity pairs of the i-th flock of a configuration whose id no
\* flock of the configuration has.
Unresolved(conf, i) ==
    { k \in 1 .. Len(conf.flocks[i].affinity) :
        \A t \in 1 .. Len(conf.flocks) :
            conf.flocks[t].id = NoId \/ conf.flocks[t].id # conf.flocks[i].affinity[k][1] }

\* The pairs of the i-th flock, before its first unresolved one, that name
\* a flock of no boids (their evaluation fails first).
HollowBefore(conf, i, k) ==
    { m \in 1 .. k - 1 :
        \E t \in 1 .. Len(conf.flocks) :
            /\ conf.flocks[t].id # NoId
            /\ conf.flocks[t].id = conf.flocks[i].affinity[m][1]
            /\ conf.flocks[t].count = 0 }

Ended == pc \in {"terminated", "failed"}

\* Once the run has ended nothing is drawn, updated or polled again.
StaysEnded == [][Ended => UNCHANGED vars]_vars

\* C6 (state part): construction succeeds; no update_boid of a flock with
\* an unresolved affinity returns; the first such call raises KeyError
\* naming the missing id, and a KeyError is only ever raised that way.
C6_State ==
    /\ pc = "init" => error = NoError
    /\ \A c \in Range(passed) : Unresolved(config, c[1]) = {}
    /\ (last.kind = "update" /\ Unresolved(config, last.fi) # {}) =>
          LET k == CHOOSE m \in Unresolved(config, last.fi) :
                       \A n \in Unresolved(config, last.fi) : m <= n
          IN  /\ pc = "failed"
              /\ last.bi = 1
              /\ tick = 0
              /\ HollowBefore(config, last.fi, k) = {} =>
                     error = KeyError(config.flocks[last.fi].affinity[k][1])
    /\ error.type = "KeyError" =>
          /\ pc = "failed"
          /\ last.kind = "update"
          /\ \E k \in Unresolved(config, last.fi) :
                 error.id = config.flocks[last.fi].affinity[k][1]

C7_NoRaise ==
    (\A i \in 1 .. Len(config.flocks) : Unresolved(config, i) = {}) => error = NoError

\* The window size a poll leaves: that of the last VIDEORESIZE before the
\* first QUIT, or the size before the poll.
SizeAfter(evs, from) ==
    LET quits == { k \in 1 .. Len(evs) : evs[k].type = "QUIT" }
        resizes == { k \in 1 .. Len(evs) :
                       /\ evs[k].type = "VIDEORESIZE"
                       /\ \A q \in quits : k < q }
    IN  IF resizes = {} THEN from
        ELSE LET k == CHOOSE m \in resizes : \A n \in resizes : n <= m
             IN  <<evs[k].w, evs[k].h>>

\* C8 (state part): the run is terminated only by a poll that returned a
\* QUIT; a poll happens only after every boid of every flock was drawn and
\* updated once in the pass; the resizes before the QUIT set the size.
C8_State ==
    /\ pc = "terminated" => (lastPoll.polled /\ Quit \in Range(lastPoll.evs))
    /\ lastPoll.polled =>
          /\ Range(lastPoll.passed) = Cursors(flocks)
          /\ Len(lastPoll.passed) = Cardinality(Cursors(flocks))
          /\ <<width, height>> = SizeAfter(lastPoll.evs, lastPoll.from)
          /\ (Quit \in Range(lastPoll.evs)) = (pc = "terminated")
    /\ pc = "poll" => Range(passed) = Cursors(flocks)

\* C8: the loop runs until a QUIT is polled at the end of a tick, applies
\* the resizes polled before it, and does nothing once terminated.
C8_TickLoop ==
    /\ []C8_State
    /\ [][(pc' = "terminated" /\ pc # "terminated") => pc = "poll"]_vars
    /\ StaysEnded

\* C8 witness: terminated by a poll that returned a resize and then a QUIT,
\* after a full pass over two boids, with the window resized.
C8_Witness ==
    /\ pc = "terminated"
    /\ lastPoll.evs = <<VideoResize(3, 4), Quit>>
    /\ <<width, height>> = <<3, 4>>
    /\ config.window # <<3, 4>>
    /\ Len(lastPoll.passed) = 2

\* C9, as stated: the positions the affinity rule reads from another flock
\* are that flock's positions at the start of the tick.
C9_StartOfTick ==
    last.kind = "update" =>
        \A k \in 1 .. Len(last.reads) :
            last.reads[k].target # last.fi =>
                last.reads[k].seen = Positions(tickStart[last.reads[k].target])

\* C9, amended: that holds for a target flock later in the flock order; of
\* a target flock earlier in the order the rule reads the positions this
\* tick's updates have already given it (every boid of it has been moved).
C9_ByFlockOrder ==
    last.kind = "update" =>
        \A k \in 1 .. Len(last.reads) :
            LET t == last.reads[k].target
            IN  /\ t > last.fi => last.reads[k].seen = Positions(tickStart[t])
                /\ t < last.fi =>
                       /\ last.reads[k].seen = Positions(flocks[t])
                       /\ \A j \in 1 .. Len(flocks[t].boids) :
                              /\ <<t, j>> \in Range(passed)
                              /\ Pos(flocks[t].boids[j]) =
                                     <<tickStart[t].boids[j].x + flocks[t].boids[j].vx,
                                       tickStart[t].boids[j].y + flocks[t].boids[j].vy>>

\* C9 witness: after the first tick, a boid read the positions of a flock
\* later in the order, whose boids had moved in the tick before.
C9_Witness ==
    /\ last.kind = "update"
    /\ last.err = NoError
    /\ tick >= 1
    /\ \E k \in 1 .. Len(last.reads) :
          /\ last.reads[k].target > last.fi
          /\ \E j \in 1 .. Len(last.reads[k].seen) :
                 visited[last.reads[k].target][j] # <<>>
                 /\ last.reads[k].seen[j] # visited[last.reads[k].target][j][1]

\* No boid has been updated yet.
Fresh == pc \in {"init", "tracers"} /\ tick = 0

\* Every flock built has the configured number of boids.
CountKept ==
    \A i \in 1 .. Len(flocks) :
        /\ Len(flocks[i].boids) = config.flocks[i].count
        /\ flocks[i].num_boids = config.flocks[i].count

\* C10, as stated: initial positions lie in the region of half the
\* window's width and height centered at the origin, initial velocity
\* components in [-1, 1], and the number of boids is the configured count.
C10_Centered ==
    /\ CountKept
    /\ Fresh =>
          \A c \in Cursors(flocks) :
              LET b == TheBoid(flocks, c)
              IN  /\ 4 * Abs(b.x) <= config.window[1]
                  /\ 4 * Abs(b.y) <= config.window[2]
                  /\ b.vx \in -1 .. 1
                  /\ b.vy \in -1 .. 1

\* C10, amended: the region has the origin as its corner: 0 <= x <=
\* width / 2 and 0 <= y <= height / 2.
C10_Cornered ==
    /\ CountKept
    /\ Fresh =>
          \A c \in Cursors(flocks) :
              LET b == TheBoid(flocks, c)
              IN  /\ 0 <= b.x /\ 2 * b.x <= config.window[1]
                  /\ 0 <= b.y /\ 2 * b.y <= config.window[2]
                  /\ b.vx \in -1 .. 1
                  /\ b.vy \in -1 .. 1

\* C10 witness: a flock was built with a boid at x = width / 2, outside
\* the centered region, and with a boid moving in each direction.
C10_Witness ==
    /\ pc = "tracers"
    /\ tick = 0
    /\ \E c, d \in Cursors(flocks) :
          /\ 2 * TheBoid(flocks, c).x = config.window[1]
          /\ TheBoid(flocks, c).vx = -1
          /\ TheBoid(flocks, d).vx = 1

====
